---- MODULE Spec2Model ----
(***************************************************************************)
(* Model of src/common/dns_utils.cpp: SplitFullDnsName, SplitSubtypes and  *)
(* the three shape-specific extractors.  A std::string is a sequence of    *)
(* one-character strings; positions are 0-based size_t values and          *)
(* std::string::npos is the all-ones value of the size_t width.            *)
(***************************************************************************)
EXTENDS Integers, Sequences, FiniteSets, TLC

VARIABLES aFullName, op, nameInfo, out, error, returned, aSubtypes, aSubtypesList

vars == <<aFullName, op, nameInfo, out, error, returned, aSubtypes, aSubtypesList>>

(***************************************************************************)
(* Bounds of the model                                                     *)
(***************************************************************************)
\* width of size_t in the model (64 in the build; strings here are far shorter)
SizeBits == 16
\* number of pieces an enumerated full name is made of
MaxPieces == 4
\* number of pieces an enumerated subtypes fragment is made of
MaxFragPieces == 4

(***************************************************************************)
(* size_t arithmetic and the std::string operations the code uses          *)
(***************************************************************************)
SizeMod == 2 ^ SizeBits

NPOS == SizeMod - 1

Wrap(x) == x % SizeMod

Min(a, b) == IF a <= b THEN a ELSE b

MaxOf(S) == CHOOSE m \in S : \A x \in S : x <= m

MinOf(S) == CHOOSE m \in S : \A x \in S : m <= x

\* std::string::find_first_of(ch, pos)
find_first_of(s, ch, pos) ==
    LET hits == {i \in 0..(Len(s) - 1) : i >= pos /\ s[i + 1] = ch}
    IN  IF hits = {} THEN NPOS ELSE MinOf(hits)

\* std::string::find_last_of(ch, pos)
find_last_of(s, ch, pos) ==
    LET hits == {i \in 0..(Len(s) - 1) : i <= pos /\ s[i + 1] = ch}
    IN  IF hits = {} THEN NPOS ELSE MaxOf(hits)

MatchesAt(s, pat, i) ==
    /\ i + Len(pat) <= Len(s)
    /\ \A k \in 1..Len(pat) : s[i + k] = pat[k]

\* std::string::rfind(str)
rfind(s, pat) ==
    LET hits == {i \in 0..(Len(s) - 1) : MatchesAt(s, pat, i)}
    IN  IF hits = {} THEN NPOS ELSE MaxOf(hits)

\* std::string::substr(pos, count) throws std::out_of_range when pos > size()
SubstrInRange(s, pos) == pos <= Len(s)

\* std::string::substr(pos, count): the characters [pos, pos + min(count, size() - pos))
substr(s, pos, count) ==
    IF ~SubstrInRange(s, pos) THEN <<>>
    ELSE SubSeq(s, pos + 1, pos + Min(count, Len(s) - pos))

\* std::count(begin, end, ch)
count(s, ch) == Cardinality({i \in 1..Len(s) : s[i] = ch})

UdpMarker == <<".", "_", "u", "d", "p">>

TcpMarker == <<".", "_", "t", "c", "p">>

(***************************************************************************)
(* NameEndsWithDot                                                         *)
(***************************************************************************)
NameEndsWithDot_NoCheck(aName) == TRUE

NameEndsWithDot(aName) == aName # <<>> /\ aName[Len(aName)] = "."

(***************************************************************************)
(* SplitSubtypes: the loop, one iteration per comma counted                *)
(***************************************************************************)
\* a plausible slip: each entry starts at its comma instead of after it
RECURSIVE SplitSubtypesLoop_InclComma(_, _, _, _)
SplitSubtypesLoop_InclComma(s, acc, prevCommaPos, subtypesNumber) ==
    IF subtypesNumber <= 0 THEN acc
    ELSE LET nextCommaPos == find_first_of(s, ",", Wrap(prevCommaPos + 1))
         IN  IF nextCommaPos = NPOS
             THEN SplitSubtypesLoop_InclComma(s,
                     [list |-> Append(acc.list, substr(s, prevCommaPos, NPOS)),
                      ok   |-> acc.ok /\ SubstrInRange(s, prevCommaPos)],
                     prevCommaPos, subtypesNumber - 1)
             ELSE SplitSubtypesLoop_InclComma(s,
                     [list |-> Append(acc.list,
                                      substr(s, prevCommaPos,
                                             Wrap(nextCommaPos - prevCommaPos))),
                      ok   |-> acc.ok /\ SubstrInRange(s, prevCommaPos)],
                     nextCommaPos, subtypesNumber - 1)

RECURSIVE SplitSubtypesLoop(_, _, _, _)
SplitSubtypesLoop(s, acc, prevCommaPos, subtypesNumber) ==
    IF subtypesNumber <= 0 THEN acc
    ELSE LET nextCommaPos == find_first_of(s, ",", Wrap(prevCommaPos + 1))
         IN  IF nextCommaPos = NPOS
             THEN SplitSubtypesLoop(s,
                     [list |-> Append(acc.list, substr(s, Wrap(prevCommaPos + 1), NPOS)),
                      ok   |-> acc.ok /\ SubstrInRange(s, Wrap(prevCommaPos + 1))],
                     prevCommaPos, subtypesNumber - 1)
             ELSE SplitSubtypesLoop(s,
                     [list |-> Append(acc.list,
                                      substr(s, Wrap(prevCommaPos + 1),
                                             Wrap(nextCommaPos - prevCommaPos - 1))),
                      ok   |-> acc.ok /\ SubstrInRange(s, Wrap(prevCommaPos + 1))],
                     nextCommaPos, subtypesNumber - 1)

\* a plausible slip: the loop runs once less than the number of commas
SplitSubtypes_OneShort(s, list) ==
    SplitSubtypesLoop(s, [list |-> list, ok |-> TRUE],
                      find_first_of(s, ",", 0), count(s, ",") - 1)

\* result: the caller's list after the call, and whether every substr was in range
SplitSubtypes(s, list) ==
    SplitSubtypesLoop(s, [list |-> list, ok |-> TRUE],
                      find_first_of(s, ",", 0), count(s, ","))

(***************************************************************************)
(* SplitFullDnsName                                                        *)
(***************************************************************************)
\* a default-constructed DnsNameInfo; fault records an abort of the call
EmptyNameInfo ==
    [mHostName |-> <<>>, mServiceName |-> <<>>, mInstanceName |-> <<>>,
     mSubtypes |-> <<>>, mDomain |-> <<>>, fault |-> "none"]

NormalizeName_Keep(aName) == aName

\* fullName = aName, with '.' appended unless it ends with one
NormalizeName(aName) ==
    IF ~NameEndsWithDot(aName) THEN aName \o <<".">> ELSE aName

\* transportPos: rfind("._udp"), and rfind("._tcp") when that is npos
TransportPos(fullName) ==
    IF rfind(fullName, UdpMarker) # NPOS
    THEN rfind(fullName, UdpMarker)
    ELSE rfind(fullName, TcpMarker)

\* the non-service branch: host.domain
HostBranch(fullName) ==
    LET dotPos == find_first_of(fullName, ".", 0)
    IN  IF dotPos = NPOS
        THEN [EmptyNameInfo EXCEPT !.fault = "assert"]
        ELSE [EmptyNameInfo EXCEPT
                !.mHostName = substr(fullName, 0, dotPos),
                !.mDomain   = substr(fullName, Wrap(dotPos + 1),
                                     Wrap(Len(fullName) - dotPos - 1)),
                !.fault     = IF SubstrInRange(fullName, Wrap(dotPos + 1))
                              THEN "none" ELSE "out_of_range"]

\* dotPos of the service branch: the last '.' before transportPos
ServiceDotPos(fullName, transportPos) ==
    IF transportPos > 0 THEN find_last_of(fullName, ".", transportPos - 1) ELSE NPOS

\* domainPos: the first '.' at or after transportPos + 1
DomainPos(fullName, transportPos) ==
    find_first_of(fullName, ".", Wrap(transportPos + 1))

\* commaPos: the first ',' of the whole name
CommaPos(fullName) == find_first_of(fullName, ",", 0)

\* the argument of SplitSubtypes: substr(commaPos, domainPos - commaPos)
SubtypesFragment(fullName, commaPos, domainPos) ==
    substr(fullName, commaPos, Wrap(domainPos - commaPos))

\* a plausible slip: the length of the transport marker is left out
ServiceTypeName_NoMarker(fullName, transportPos) ==
    substr(fullName, 0, transportPos)

\* service.domain: mServiceName = substr(0, transportPos + 5)
ServiceTypeName(fullName, transportPos) ==
    substr(fullName, 0, Wrap(transportPos + 5))

\* a plausible slip: the service branch also fills mHostName
ServiceBranch_AlsoHost(fullName, transportPos) ==
    LET dotPos    == ServiceDotPos(fullName, transportPos)
        domainPos == DomainPos(fullName, transportPos)
        commaPos  == CommaPos(fullName)
        split     == IF commaPos # NPOS
                     THEN SplitSubtypes(SubtypesFragment(fullName, commaPos, domainPos), <<>>)
                     ELSE [list |-> <<>>, ok |-> TRUE]
    IN  [EmptyNameInfo EXCEPT
           !.mDomain       = substr(fullName, Wrap(domainPos + 1), NPOS),
           !.mSubtypes     = split.list,
           !.mHostName     = substr(fullName, 0, transportPos),
           !.mServiceName  = IF dotPos = NPOS
                             THEN ServiceTypeName(fullName, transportPos)
                             ELSE substr(fullName, Wrap(dotPos + 1),
                                         Wrap(transportPos + 4 - dotPos)),
           !.mInstanceName = IF dotPos = NPOS THEN <<>> ELSE substr(fullName, 0, dotPos)]

\* the service branch: service.domain or instance.service.domain
ServiceBranch(fullName, transportPos) ==
    LET dotPos    == ServiceDotPos(fullName, transportPos)
        domainPos == DomainPos(fullName, transportPos)
        commaPos  == CommaPos(fullName)
        split     == IF commaPos # NPOS
                     THEN SplitSubtypes(SubtypesFragment(fullName, commaPos, domainPos), <<>>)
                     ELSE [list |-> <<>>, ok |-> TRUE]
        inRange   == /\ SubstrInRange(fullName, Wrap(domainPos + 1))
                     /\ commaPos # NPOS => SubstrInRange(fullName, commaPos)
                     /\ split.ok
                     /\ dotPos # NPOS => SubstrInRange(fullName, Wrap(dotPos + 1))
    IN  [EmptyNameInfo EXCEPT
           !.mDomain       = substr(fullName, Wrap(domainPos + 1), NPOS),
           !.mSubtypes     = split.list,
           !.mServiceName  = IF dotPos = NPOS
                             THEN ServiceTypeName(fullName, transportPos)
                             ELSE substr(fullName, Wrap(dotPos + 1),
                                         Wrap(transportPos + 4 - dotPos)),
           !.mInstanceName = IF dotPos = NPOS THEN <<>> ELSE substr(fullName, 0, dotPos),
           !.fault         = IF inRange THEN "none" ELSE "out_of_range"]

FinishDomain_Keep(info) == info

\* the closing step: mDomain gets a '.' appended unless it ends with one
FinishDomain(info) ==
    IF info.fault = "none" /\ ~NameEndsWithDot(info.mDomain)
    THEN [info EXCEPT !.mDomain = info.mDomain \o <<".">>]
    ELSE info

SplitFullDnsName(aName) ==
    LET fullName     == NormalizeName(aName)
        transportPos == TransportPos(fullName)
    IN  FinishDomain(IF transportPos = NPOS
                     THEN HostBranch(fullName)
                     ELSE ServiceBranch(fullName, transportPos))

(***************************************************************************)
(* DnsNameInfo predicates (declared in common/dns_utils.hpp)               *)
(***************************************************************************)
IsHost(info) == info.mHostName # <<>>

IsService(info) == info.mServiceName # <<>> /\ info.mInstanceName = <<>>

IsServiceInstance(info) == info.mServiceName # <<>> /\ info.mInstanceName # <<>>

(***************************************************************************)
(* Inputs                                                                  *)
(***************************************************************************)
HostExample ==
    <<"h", "o", "s", "t", ".", "e", "x", "a", "m", "p", "l", "e", ".", "c", "o", "m">>

ServiceExample ==
    <<"_", "s", "e", "r", "v", "i", "c", "e", ".", "_", "u", "d", "p", ".", "e", "x", "a", "m", "p", "l", "e", ".", "c", "o", "m", ".">>

InstanceExample ==
    <<"m", "y", "i", "n", "s", "t", "a", "n", "c", "e", ".", "_", "s", "e", "r", "v", "i", "c", "e", ".", "_", "u", "d", "p", ".", "e", "x", "a", "m", "p", "l", "e", ".", "c", "o", "m", ".">>

SubtypesBeforeServiceExample ==
    <<"m", "y", "i", "n", "s", "t", "a", "n", "c", "e", ",", "s", "u", "b", "A", ",", "s", "u", "b", "B", ".", "_", "s", "e", "r", "v", "i", "c", "e", ".", "_", "u", "d", "p", ".", "e", "x", "a", "m", "p", "l", "e", ".", "c", "o", "m", ".">>

SubtypesAfterServiceExample ==
    <<"m", "y", "i", "n", "s", "t", "a", "n", "c", "e", ".", "_", "s", "e", "r", "v", "i", "c", "e", ".", "_", "u", "d", "p", ",", "s", "u", "b", "A", ",", "s", "u", "b", "B", ".", "e", "x", "a", "m", "p", "l", "e", ".", "c", "o", "m", ".">>

Examples ==
    {HostExample, ServiceExample, InstanceExample,
     SubtypesBeforeServiceExample, SubtypesAfterServiceExample}

NamePieces ==
    {<<"a">>, <<".">>, <<",">>, <<"_", "u", "d", "p">>, <<"_", "t", "c", "p">>}

FragPieces == {<<"a">>, <<",">>, <<".">>}

RECURSIVE Concats(_, _)
\* every concatenation of at most n pieces
Concats(pieces, n) ==
    IF n = 0 THEN {<<>>}
    ELSE LET shorter == Concats(pieces, n - 1)
         IN  shorter \cup {s \o p : s \in shorter, p \in pieces}

Names == Concats(NamePieces, MaxPieces) \cup Examples

Fragments == Concats(FragPieces, MaxFragPieces)

PriorLists == {<<>>, <<<<"x">>>>, <<<<"x">>, <<>>>>}

\* what the caller's output arguments hold before any extractor is called
PriorOut ==
    [aHostName |-> <<"h">>, aInstanceName |-> <<"i">>, aType |-> <<"t">>,
     aSubtypes |-> <<<<"s">>>>, aDomain |-> <<"d">>]

Extractors == {"SplitFullHostName", "SplitFullServiceName", "SplitFullServiceInstanceName"}

(***************************************************************************)
(* The callers: one full name per behaviour, the functions applied to it   *)
(***************************************************************************)
Init ==
    /\ aFullName \in Names
    /\ op = "none"
    /\ nameInfo = EmptyNameInfo
    /\ out = PriorOut
    /\ error = "none"
    /\ returned = [e \in Extractors |-> "pending"]
    /\ aSubtypes = <<>>
    /\ aSubtypesList = <<>>

CallSplitFullDnsName ==
    /\ nameInfo' = SplitFullDnsName(aFullName)
    /\ op' = "SplitFullDnsName"
    /\ UNCHANGED <<aFullName, out, error, returned, aSubtypes, aSubtypesList>>

\* the value an extractor returns when the predicate holds / fails
ErrorOf(info, holds) ==
    IF info.fault # "none" THEN "ABORTED"
    ELSE IF holds THEN "OTBR_ERROR_NONE" ELSE "OTBR_ERROR_INVALID_ARGS"

\* a plausible slip: aDomain is assigned before the shape is verified
SplitFullHostName_AssignFirst ==
    LET info == SplitFullDnsName(aFullName)
    IN  /\ error' = ErrorOf(info, IsHost(info))
        /\ out' = IF error' = "OTBR_ERROR_NONE"
                  THEN [out EXCEPT !.aHostName = info.mHostName, !.aDomain = info.mDomain]
                  ELSE [out EXCEPT !.aDomain = info.mDomain]
        /\ returned' = [returned EXCEPT !["SplitFullHostName"] = error']
        /\ op' = "SplitFullHostName"
        /\ UNCHANGED <<aFullName, nameInfo, aSubtypes, aSubtypesList>>

SplitFullHostName ==
    LET info == SplitFullDnsName(aFullName)
    IN  /\ error' = ErrorOf(info, IsHost(info))
        /\ out' = IF error' = "OTBR_ERROR_NONE"
                  THEN [out EXCEPT !.aHostName = info.mHostName, !.aDomain = info.mDomain]
                  ELSE out
        /\ returned' = [returned EXCEPT !["SplitFullHostName"] = error']
        /\ op' = "SplitFullHostName"
        /\ UNCHANGED <<aFullName, nameInfo, aSubtypes, aSubtypesList>>

SplitFullServiceName ==
    LET info == SplitFullDnsName(aFullName)
    IN  /\ error' = ErrorOf(info, IsService(info))
        /\ out' = IF error' = "OTBR_ERROR_NONE"
                  THEN [out EXCEPT !.aType = info.mServiceName, !.aDomain = info.mDomain]
                  ELSE out
        /\ returned' = [returned EXCEPT !["SplitFullServiceName"] = error']
        /\ op' = "SplitFullServiceName"
        /\ UNCHANGED <<aFullName, nameInfo, aSubtypes, aSubtypesList>>

SplitFullServiceInstanceName ==
    LET info == SplitFullDnsName(aFullName)
    IN  /\ error' = ErrorOf(info, IsServiceInstance(info))
        /\ out' = IF error' = "OTBR_ERROR_NONE"
                  THEN [out EXCEPT !.aInstanceName = info.mInstanceName,
                                   !.aType = info.mServiceName,
                                   !.aSubtypes = info.mSubtypes,
                                   !.aDomain = info.mDomain]
                  ELSE out
        /\ returned' = [returned EXCEPT !["SplitFullServiceInstanceName"] = error']
        /\ op' = "SplitFullServiceInstanceName"
        /\ UNCHANGED <<aFullName, nameInfo, aSubtypes, aSubtypesList>>

Next ==
    \/ CallSplitFullDnsName
    \/ SplitFullHostName
    \/ SplitFullServiceName
    \/ SplitFullServiceInstanceName

Spec == Init /\ [][Next]_vars

(***************************************************************************)
(* SplitSubtypes called on its own: a fragment and a caller's list         *)
(***************************************************************************)
InitSubtypes ==
    /\ aFullName = <<>>
    /\ op = "none"
    /\ nameInfo = EmptyNameInfo
    /\ out = PriorOut
    /\ error = "none"
    /\ returned = [e \in Extractors |-> "pending"]
    /\ aSubtypes \in Fragments
    /\ aSubtypesList \in PriorLists

CallSplitSubtypes ==
    /\ op = "none"
    /\ aSubtypesList' = SplitSubtypes(aSubtypes, aSubtypesList).list
    /\ op' = "SplitSubtypes"
    /\ UNCHANGED <<aFullName, nameInfo, out, error, returned, aSubtypes>>

NextSubtypes == CallSplitSubtypes

SpecSubtypes == InitSubtypes /\ [][NextSubtypes]_vars

(***************************************************************************)
(* Helpers of the properties, written without the operators of the code    *)
(***************************************************************************)
EndsWithDot(s) == Len(s) > 0 /\ s[Len(s)] = "."

WithDot(s) == IF EndsWithDot(s) THEN s ELSE s \o <<".">>

MarkerAt(s, i) == MatchesAt(s, UdpMarker, i) \/ MatchesAt(s, TcpMarker, i)

HasMarker(s) == \E i \in 0..(Len(s) - 1) : MarkerAt(s, i)

RightmostMarker(s) == MaxOf({i \in 0..(Len(s) - 1) : MarkerAt(s, i)})

HasComma(s) == \E i \in 1..Len(s) : s[i] = ","

\* the text after the first '.' that follows position t, dot-terminated
DomainAfter(s, t) ==
    LET d == MinOf({i \in 0..(Len(s) - 1) : i > t /\ s[i + 1] = "."})
    IN  WithDot(SubSeq(s, d + 2, Len(s)))

\* the segments that follow each comma of s, left to right
CommaSegments(s) ==
    LET cs     == {i \in 1..Len(s) : s[i] = ","}
        nth(k) == CHOOSE i \in cs : Cardinality({j \in cs : j < i}) = k - 1
    IN  [k \in 1..Cardinality(cs) |->
            SubSeq(s, nth(k) + 1,
                   (IF k < Cardinality(cs) THEN nth(k + 1) ELSE Len(s) + 1) - 1)]

Str_myinstance == <<"m", "y", "i", "n", "s", "t", "a", "n", "c", "e">>

Str_subA == <<"s", "u", "b", "A">>

Str_subB == <<"s", "u", "b", "B">>

Str_service_udp == <<"_", "s", "e", "r", "v", "i", "c", "e", ".", "_", "u", "d", "p">>

Str_example_com == <<"e", "x", "a", "m", "p", "l", "e", ".", "c", "o", "m", ".">>

InstanceShape(info) ==
    /\ info.mInstanceName = Str_myinstance
    /\ info.mServiceName = Str_service_udp
    /\ info.mDomain = Str_example_com
    /\ info.mHostName = <<>>

Split(name) == op = "SplitFullDnsName" /\ aFullName = name

C2_DomainEndsWithDot ==
    op = "SplitFullDnsName" =>
        /\ Len(nameInfo.mDomain) > 0
        /\ nameInfo.mDomain[Len(nameInfo.mDomain)] = "."

\* a single label: the domain left by the split is empty and gets its dot
C2_Witness ==
    /\ Split(<<"a">>)
    /\ nameInfo.mHostName = <<"a">>
    /\ nameInfo.mDomain = <<".">>

(***************************************************************************)
(* C3                                                                      *)
(***************************************************************************)
\* C3: SplitFullDnsName is total: for every input the assertion on the first
\* '.' holds, the first '.' after the transport marker is found, and no
\* substr start position exceeds the length of the string.
C3_Total ==
    op = "SplitFullDnsName" =>
        /\ nameInfo.fault = "none"
        /\ LET fullName == WithDot(aFullName)
           IN  /\ ~HasMarker(fullName) => find_first_of(fullName, ".", 0) # NPOS
               /\ HasMarker(fullName) =>
                     DomainPos(fullName, TransportPos(fullName)) # NPOS

\* the transport marker at position 0 and as the last label
C3_Witness ==
    /\ Split(UdpMarker)
    /\ nameInfo.fault = "none"
    /\ nameInfo.mServiceName = UdpMarker

(***************************************************************************)
(* C4                                                                      *)
(***************************************************************************)
\* C4 (as stated): for every input exactly one of hostName and serviceName is
\* set, never both and never neither, and instanceName is set only if
\* serviceName is set.
C4_Original ==
    op = "SplitFullDnsName" =>
        /\ (nameInfo.mHostName # <<>>) # (nameInfo.mServiceName # <<>>)
        /\ nameInfo.mInstanceName # <<>> => nameInfo.mServiceName # <<>>

\* C4 (amended): for every input hostName and serviceName are never both set;
\* neither is set exactly when the name has no transport marker and is empty
\* or starts with '.'; instanceName is set only if serviceName is set.
C4_AtMostOne ==
    op = "SplitFullDnsName" =>
        /\ ~(nameInfo.mHostName # <<>> /\ nameInfo.mServiceName # <<>>)
        /\ (nameInfo.mHostName = <<>> /\ nameInfo.mServiceName = <<>>)
              <=> (~HasMarker(aFullName) /\ (aFullName = <<>> \/ aFullName[1] = "."))
        /\ nameInfo.mInstanceName # <<>> => nameInfo.mServiceName # <<>>

C4_Witness ==
    /\ Split(<<".", "a">>)
    /\ nameInfo.mHostName = <<>>
    /\ nameInfo.mServiceName = <<>>
    /\ nameInfo.mDomain = <<"a", ".">>

(***************************************************************************)
(* C5                                                                      *)
(***************************************************************************)
\* C5: at most one of IsHost, IsService and IsServiceInstance holds on the
\* result of SplitFullDnsName, and at most one of the three extractors
\* returns success for the same full name.
C5_AtMostOneShape ==
    /\ op = "SplitFullDnsName" =>
          Cardinality({p \in {"host", "service", "instance"} :
                          \/ p = "host" /\ IsHost(nameInfo)
                          \/ p = "service" /\ IsService(nameInfo)
                          \/ p = "instance" /\ IsServiceInstance(nameInfo)}) <= 1
    /\ Cardinality({e \in Extractors : returned[e] = "OTBR_ERROR_NONE"}) <= 1

\* all three extractors were called on a service instance name
C5_Witness ==
    /\ \A e \in Extractors : returned[e] # "pending"
    /\ returned["SplitFullServiceInstanceName"] = "OTBR_ERROR_NONE"
    /\ returned["SplitFullHostName"] = "OTBR_ERROR_INVALID_ARGS"
    /\ returned["SplitFullServiceName"] = "OTBR_ERROR_INVALID_ARGS"

(***************************************************************************)
(* C6                                                                      *)
(***************************************************************************)
\* C6: after SplitSubtypes(fragment, list) the list is its prior content
\* followed by one entry per comma of the fragment, the i-th being the text
\* between the i-th comma and the next comma or the end, empty ones kept.
C6_AppendsSegments ==
    [][op' = "SplitSubtypes" /\ op = "none" =>
          /\ aSubtypesList' = aSubtypesList \o CommaSegments(aSubtypes)
          /\ Len(aSubtypesList') = Len(aSubtypesList) + count(aSubtypes, ",")]_vars

\* ",a,," appended to a list that already holds an entry
C6_Witness ==
    /\ op = "SplitSubtypes"
    /\ aSubtypes = <<",", "a", ",", ",">>
    /\ aSubtypesList = <<<<"x">>, <<"a">>, <<>>, <<>>>>

ExtractorContract(name, shapeHolds) ==
    op' = name =>
        /\ error' \in {"OTBR_ERROR_NONE", "OTBR_ERROR_INVALID_ARGS"}
        /\ error' = "OTBR_ERROR_NONE" <=> shapeHolds
        /\ error' = "OTBR_ERROR_INVALID_ARGS" => out' = out

\* C8: each extractor returns the InvalidArgument error exactly when the
\* NameInfo of the full name does not have its shape, success otherwise, and
\* leaves every output argument of the caller untouched when it fails.
C8_ExtractorErrors ==
    [][LET info == SplitFullDnsName(aFullName)
       IN  /\ ExtractorContract("SplitFullHostName", info.mHostName # <<>>)
           /\ ExtractorContract("SplitFullServiceName",
                                info.mServiceName # <<>> /\ info.mInstanceName = <<>>)
           /\ ExtractorContract("SplitFullServiceInstanceName",
                                info.mServiceName # <<>> /\ info.mInstanceName # <<>>)]_vars

\* a failed extractor after a successful one: the host name stays in place
C8_Witness ==
    /\ op = "SplitFullServiceName"
    /\ error = "OTBR_ERROR_INVALID_ARGS"
    /\ out.aHostName = <<"a">>
    /\ out.aType = PriorOut.aType

(***************************************************************************)
(* C9                                                                      *)
(***************************************************************************)
\* C9: for every input containing a marker, the transport position used is
\* the greatest index at which "._udp" or "._tcp" occurs in the normalized
\* name, and the domain is the text after the first '.' following it.
C9_RightmostMarker ==
    op = "SplitFullDnsName" /\ HasMarker(aFullName) =>
        LET fullName == WithDot(aFullName)
        IN  /\ TransportPos(fullName) = RightmostMarker(fullName)
            /\ nameInfo.mDomain = DomainAfter(fullName, RightmostMarker(fullName))

(***************************************************************************)
(* C10                                                                     *)
(***************************************************************************)
\* C10: on the service branch with a comma in the name, the subtypes are those
\* of the text from the first comma up to domainPos, so no entry holds a
\* character at or after domainPos, also when the first comma lies after
\* domainPos.
C10_FragmentEndsAtDomainPos ==
    op = "SplitFullDnsName" /\ HasMarker(aFullName) /\ HasComma(aFullName) =>
        LET fullName  == WithDot(aFullName)
            domainPos == DomainPos(fullName, TransportPos(fullName))
            commaPos  == MinOf({i \in 0..(Len(fullName) - 1) : fullName[i + 1] = ","})
        IN  nameInfo.mSubtypes = CommaSegments(SubSeq(fullName, commaPos + 1, domainPos))

====
